---- MODULE Spec2Model ----
(***************************************************************************)
(* Tag normalization rules (RomanRizers/tag_normalization_rules).          *)
(*                                                                         *)
(* A Python str is a sequence of one-character strings: "ab" is            *)
(* <<"a", "b">>, the empty string is <<>>.  A Python dict is a sequence of *)
(* [k, v] records in insertion order (the order dict.keys() iterates in);  *)
(* the persisted cache, whose key order nothing reads, is a function from  *)
(* raw tokens to timestamps.  A float that is the quotient of two small    *)
(* integers is the pair [num, den]: IEEE division is correctly rounded, so *)
(* comparing such quotients with 0.6 as floats and as rationals agree.     *)
(***************************************************************************)
EXTENDS Integers, Sequences, FiniteSets

VARIABLES
    impl,         \* 1: first_implementation.py, 2: second_implementation.py
    now,          \* the clock datetime.now() reads, in days
    file,         \* invalid_tags_cache.json: raw token -> timestamp
    called,       \* whether apply_tag_rules has been called
    lastTags,     \* arguments of the last apply_tag_rules call
    lastRules,
    lastDelayed,
    lastNow,      \* the clock during the last call
    loaded,       \* what load_cache() returned in the last call
    cleaned,      \* the cache after clean_cache() in the last call
    result_tags,  \* result_tags at the end of the token loop of the last call
    final_tags,   \* final_tags of the last call
    out,          \* the string the last call returned
    fuzzyRan,     \* raw tokens find_best_match was called on in the last call
    rejected,     \* raw tokens that reached the delayed_clean test in the last call
    raised,       \* whether the last call ended in an exception
    q             \* the pure-function harness: arguments and results

vars == <<impl, now, file, called, lastTags, lastRules, lastDelayed, lastNow,
          loaded, cleaned, result_tags, final_tags, out, fuzzyRan, rejected, raised, q>>

------------------------------------------------------------------------------
(* Characters and strings *)

Min(x, y) == IF x <= y THEN x ELSE y

Range(s) == {s[i] : i \in 1..Len(s)}

\* ord(c) for the characters of the model's alphabet
Ord(c) ==
    CASE c = " " -> 32 [] c = "," -> 44 [] c = "-" -> 45 [] c = ";" -> 59
      [] c = "A" -> 65 [] c = "B" -> 66 [] c = "_" -> 95
      [] c = "a" -> 97 [] c = "b" -> 98

\* str.isupper() of one character
IsUpper(c) == c \in {"A", "B"}

\* str.lower() of one character
Lower(c) == CASE c = "A" -> "a" [] c = "B" -> "b" [] OTHER -> c

\* str.isspace() of one character, as str.strip() uses it
IsSpace(c) == c = " "

\* s[i:j] of Python with 0 <= i, 0-based, j exclusive
Slice(s, i, j) == IF j <= i THEN <<>> ELSE SubSeq(s, i + 1, Min(j, Len(s)))

\* Python's < on str: lexicographic by code point, a proper prefix is less
RECURSIVE StrLess(_, _)
StrLess(s, t) ==
    IF t = <<>> THEN FALSE
    ELSE IF s = <<>> THEN TRUE
    ELSE IF Ord(Head(s)) # Ord(Head(t)) THEN Ord(Head(s)) < Ord(Head(t))
    ELSE StrLess(Tail(s), Tail(t))

\* str.strip()
RECURSIVE LStrip(_)
LStrip(s) == IF s # <<>> /\ IsSpace(Head(s)) THEN LStrip(Tail(s)) ELSE s

RECURSIVE RStrip(_)
RStrip(s) ==
    IF s # <<>> /\ IsSpace(s[Len(s)]) THEN RStrip(SubSeq(s, 1, Len(s) - 1)) ELSE s

Strip(s) == RStrip(LStrip(s))

\* s.startswith(sep)
StartsWith(s, sep) == Len(s) >= Len(sep) /\ SubSeq(s, 1, Len(sep)) = sep

\* str.split(sep) for a non-empty sep: the pieces between the occurrences of
\* sep found left to right, empty pieces kept, so "".split(";") is [""]
RECURSIVE SplitFrom(_, _, _)
SplitFrom(s, sep, piece) ==
    IF s = <<>> THEN <<piece>>
    ELSE IF StartsWith(s, sep)
         THEN <<piece>> \o SplitFrom(SubSeq(s, Len(sep) + 1, Len(s)), sep, <<>>)
         ELSE SplitFrom(Tail(s), sep, Append(piece, Head(s)))

Split(s, sep) == SplitFrom(s, sep, <<>>)

\* sep.join(parts)
RECURSIVE Join(_, _)
Join(sep, parts) ==
    IF parts = <<>> THEN <<>>
    ELSE IF Len(parts) = 1 THEN parts[1]
    ELSE parts[1] \o sep \o Join(sep, Tail(parts))

------------------------------------------------------------------------------
(* dict, in insertion order *)

DictKeys(d) == [i \in 1..Len(d) |-> d[i].k]

DictHas(d, key) == \E i \in 1..Len(d) : d[i].k = key

DictGet(d, key) == d[CHOOSE i \in 1..Len(d) : d[i].k = key].v

\* d[key] = value: a present key keeps its place and takes the new value
DictSet(d, key, value) ==
    IF DictHas(d, key)
    THEN [i \in 1..Len(d) |-> IF d[i].k = key THEN [k |-> key, v |-> value] ELSE d[i]]
    ELSE Append(d, [k |-> key, v |-> value])

------------------------------------------------------------------------------
(* normalize_tag *)

\* normalize_tag without .lower()
normalize_tag_keep_case(tag) ==
    [i \in 1..Len(tag) |-> IF tag[i] \in {" ", "-"} THEN "_" ELSE tag[i]]

normalize_tag(tag) ==
    [i \in 1..Len(tag) |-> Lower(IF tag[i] \in {" ", "-"} THEN "_" ELSE tag[i])]

------------------------------------------------------------------------------
(* The character-overlap scorer of the first implementation *)

ZeroDivisionError == [ok |-> FALSE, num |-> 0, den |-> 0]

Quotient(n, d) == IF d = 0 THEN ZeroDivisionError ELSE [ok |-> TRUE, num |-> n, den |-> d]

\* x > y for two quotients with positive denominators
Greater(x, y) == x.num * y.den > y.num * x.den

GreaterEq(x, y) == x.num * y.den >= y.num * x.den

\* the inner loop: the first unused j with second_token[j] = c, 0 when none
FirstUnused(c, second_token, used) ==
    LET J == {j \in 1..Len(second_token) : j \notin used /\ second_token[j] = c}
    IN  IF J = {} THEN 0 ELSE CHOOSE j \in J : \A k \in J : j <= k

\* equal_subtokens_count after the outer loop has run from position i on
RECURSIVE CountEqual(_, _, _, _)
CountEqual(first_token, second_token, i, used) ==
    IF i > Len(first_token) THEN 0
    ELSE LET j == FirstUnused(first_token[i], second_token, used)
         IN  IF j = 0 THEN CountEqual(first_token, second_token, i + 1, used)
             ELSE 1 + CountEqual(first_token, second_token, i + 1, used \cup {j})

\* tanimoto = equal_subtokens_count /
\*            (subtoken_first_count + subtoken_second_count - equal_subtokens_count)
tanimoto(first_token, second_token, equal_subtokens_count) ==
    Quotient(equal_subtokens_count,
             Len(first_token) + Len(second_token) - equal_subtokens_count)

is_tokens_fuzzy_equal(first_token, second_token) ==
    tanimoto(first_token, second_token, CountEqual(first_token, second_token, 1, {}))

------------------------------------------------------------------------------
(* find_best_match of the first implementation *)

\* the acceptance threshold 0.6, as the quotient 3/5
best_score_init == [ok |-> TRUE, num |-> 3, den |-> 5]

None == [kind |-> "None", name |-> <<>>]

Raise == [kind |-> "raise", name |-> <<>>]

Name(n) == [kind |-> "name", name |-> n]

\* the loop over allowed_tags_with_synonyms.keys() from position i on;
\* best_match is a key, or None
RECURSIVE BestLoop(_, _, _, _, _)
\* the body of the loop for keys[i], with score its score: `if score > best_score`
BestStep(normalized_tag, keys, i, best_match, best_score, score) ==
    IF ~score.ok THEN Raise
    ELSE IF Greater(score, best_score)
         THEN BestLoop(normalized_tag, keys, i + 1, Name(keys[i]), score)
         ELSE BestLoop(normalized_tag, keys, i + 1, best_match, best_score)

BestLoop(normalized_tag, keys, i, best_match, best_score) ==
    IF i > Len(keys) THEN best_match
    ELSE BestStep(normalized_tag, keys, i, best_match, best_score,
                  is_tokens_fuzzy_equal(normalized_tag, keys[i]))

\* return allowed_tags_with_synonyms.get(best_match) if best_match else None
BestOrNone(allowed_tags_with_synonyms, best_match) ==
    IF best_match.kind = "raise" THEN Raise
    ELSE IF best_match.kind = "name" /\ best_match.name # <<>>
         THEN Name(DictGet(allowed_tags_with_synonyms, best_match.name))
         ELSE None

find_best_match_1(tag, allowed_tags_with_synonyms) ==
    BestOrNone(allowed_tags_with_synonyms,
               BestLoop(normalize_tag(tag), DictKeys(allowed_tags_with_synonyms),
                        1, None, best_score_init))

------------------------------------------------------------------------------
(* find_best_match of the second implementation: difflib.get_close_matches, *)
(* of the Python standard library (SequenceMatcher with a = the key,        *)
(* b = the word; sequences under 200 elements have no junk).                *)

\* SequenceMatcher.find_longest_match(alo, ahi, blo, bhi), 0-based, hi
\* exclusive: the longest block, of those the one earliest in a, of those the
\* one earliest in b; k = 0 when nothing matches
find_longest_match(a, alo, ahi, b, blo, bhi) ==
    LET Blocks == {m \in (alo..ahi - 1) \X (blo..bhi - 1) \X (1..Min(ahi - alo, bhi - blo)) :
                     /\ m[1] + m[3] <= ahi
                     /\ m[2] + m[3] <= bhi
                     /\ Slice(a, m[1], m[1] + m[3]) = Slice(b, m[2], m[2] + m[3])}
        Better(m, n) == \/ m[3] > n[3]
                        \/ m[3] = n[3] /\ m[1] < n[1]
                        \/ m[3] = n[3] /\ m[1] = n[1] /\ m[2] <= n[2]
    IN  IF Blocks = {} THEN <<alo, blo, 0>>
        ELSE CHOOSE m \in Blocks : \A n \in Blocks : Better(m, n)

\* the sum of the sizes of get_matching_blocks()
RECURSIVE MatchingSize(_, _, _, _, _, _)
\* the block (i, j, k) and the blocks to its left and to its right
AroundBlock(a, alo, ahi, b, blo, bhi, i, j, k) ==
    IF k = 0 THEN 0
    ELSE k + (IF alo < i /\ blo < j THEN MatchingSize(a, alo, i, b, blo, j) ELSE 0)
           + (IF i + k < ahi /\ j + k < bhi
              THEN MatchingSize(a, i + k, ahi, b, j + k, bhi) ELSE 0)

\* i, j, k = x = self.find_longest_match(alo, ahi, blo, bhi)
MatchingBlock(a, alo, ahi, b, blo, bhi, x) ==
    AroundBlock(a, alo, ahi, b, blo, bhi, x[1], x[2], x[3])

MatchingSize(a, alo, ahi, b, blo, bhi) ==
    MatchingBlock(a, alo, ahi, b, blo, bhi, find_longest_match(a, alo, ahi, b, blo, bhi))

\* difflib._calculate_ratio
calculate_ratio(matches, length) ==
    IF length # 0 THEN Quotient(2 * matches, length) ELSE Quotient(1, 1)

ratio(a, b) == calculate_ratio(MatchingSize(a, 0, Len(a), b, 0, Len(b)), Len(a) + Len(b))

Count(s, c) == Cardinality({i \in 1..Len(s) : s[i] = c})

RECURSIVE SumMin(_, _, _)
SumMin(a, b, chars) ==
    IF chars = {} THEN 0
    ELSE LET c == CHOOSE x \in chars : TRUE
         IN  Min(Count(a, c), Count(b, c)) + SumMin(a, b, chars \ {c})

\* the size of the multiset intersection, an upper bound on ratio()
quick_ratio(a, b) == calculate_ratio(SumMin(a, b, Range(a)), Len(a) + Len(b))

real_quick_ratio(a, b) == calculate_ratio(Min(Len(a), Len(b)), Len(a) + Len(b))

\* cutoff=0.6, as the quotient 3/5
cutoff == [ok |-> TRUE, num |-> 3, den |-> 5]

\* the (score, x) pairs get_close_matches collects, as the positions of x
CloseEnough(word, possibilities) ==
    {i \in 1..Len(possibilities) :
        /\ GreaterEq(real_quick_ratio(possibilities[i], word), cutoff)
        /\ GreaterEq(quick_ratio(possibilities[i], word), cutoff)
        /\ GreaterEq(ratio(possibilities[i], word), cutoff)}

\* Python's < on the tuples (si, xi) and (sj, xj)
TupleLess(si, xi, sj, xj) ==
    \/ Greater(sj, si)
    \/ ~Greater(si, sj) /\ StrLess(xi, xj)

PairLess(word, possibilities, i, j) ==
    TupleLess(ratio(possibilities[i], word), possibilities[i],
              ratio(possibilities[j], word), possibilities[j])

\* the positions of the greatest (score, x) pairs of result
Greatest(word, possibilities, result) ==
    {i \in result : \A j \in result : ~PairLess(word, possibilities, i, j)}

FirstOf(positions) == CHOOSE i \in positions : \A j \in positions : i <= j

\* heapq.nlargest(1, result) is [max(result)], and [] for no result
nlargest(word, possibilities, result) ==
    IF result = {} THEN <<>>
    ELSE <<possibilities[FirstOf(Greatest(word, possibilities, result))]>>

\* get_close_matches(word, possibilities, n=1, cutoff=0.6)
get_close_matches(word, possibilities) ==
    nlargest(word, possibilities, CloseEnough(word, possibilities))

\* return allowed_tags_with_synonyms.get(matches[0]) if matches else None
FirstOrNone(allowed_tags_with_synonyms, matches) ==
    IF matches # <<>> THEN Name(DictGet(allowed_tags_with_synonyms, matches[1])) ELSE None

find_best_match_2(tag, allowed_tags_with_synonyms) ==
    FirstOrNone(allowed_tags_with_synonyms,
                get_close_matches(normalize_tag(tag), DictKeys(allowed_tags_with_synonyms)))

find_best_match(which, tag, allowed_tags_with_synonyms) ==
    IF which = 1 THEN find_best_match_1(tag, allowed_tags_with_synonyms)
    ELSE find_best_match_2(tag, allowed_tags_with_synonyms)

------------------------------------------------------------------------------
(* split_composite_tag *)

\* the scan of tag from position i on: parts so far, and current_part
RECURSIVE ScanParts(_, _, _, _)
ScanParts(tag, i, parts, current_part) ==
    IF i > Len(tag)
    THEN IF current_part # <<>> THEN Append(parts, current_part) ELSE parts
    ELSE IF IsUpper(tag[i]) /\ current_part # <<>>
         THEN ScanParts(tag, i + 1, Append(parts, current_part), <<tag[i]>>)
         ELSE ScanParts(tag, i + 1, parts, Append(current_part, tag[i]))

\* the list comprehension over parts
RECURSIVE LookupParts(_, _)
LookupParts(parts, allowed_tags) ==
    IF parts = <<>> THEN <<>>
    ELSE (IF DictHas(allowed_tags, normalize_tag(Head(parts)))
          THEN <<DictGet(allowed_tags, normalize_tag(Head(parts)))>> ELSE <<>>)
         \o LookupParts(Tail(parts), allowed_tags)

split_composite_tag(tag, allowed_tags) ==
    LookupParts(ScanParts(tag, 1, <<>>, <<>>), allowed_tags)

------------------------------------------------------------------------------
(* delete_cache.py: the cache of invalid tags *)

CACHE_EXPIRATION_DAYS == 14

EmptyCache == [t \in {} |-> 0]

\* invalid_tags[key] = ts
CachePut(invalid_tags, key, ts) ==
    [t \in DOMAIN invalid_tags \cup {key} |-> IF t = key THEN ts ELSE invalid_tags[t]]

\* del invalid_tags[t] for every t of keys
CacheDel(invalid_tags, keys) == [t \in DOMAIN invalid_tags \ keys |-> invalid_tags[t]]

\* load_cache(): the file's mapping; a file that does not exist reads as {},
\* which is what EmptyCache in `file` stands for
load_cache == file

\* clean_cache with `>=` for `>`
clean_cache_inclusive(invalid_tags, current_time) ==
    CacheDel(invalid_tags,
             {t \in DOMAIN invalid_tags :
                current_time - invalid_tags[t] >= CACHE_EXPIRATION_DAYS})

\* clean_cache(invalid_tags), with current_time the clock it reads.  The
\* timestamp is written by datetime.isoformat() and read back by
\* datetime.fromisoformat(), which returns the datetime written.
clean_cache(invalid_tags, current_time) ==
    CacheDel(invalid_tags,
             {t \in DOMAIN invalid_tags :
                current_time - invalid_tags[t] > CACHE_EXPIRATION_DAYS})

------------------------------------------------------------------------------
(* apply_tag_rules *)

\* AllowedTagRecord(allowed_name, synonyms); synonyms None is the empty
\* string here: `if record.synonyms` is false for both
Rec(allowed_name, synonyms) == [allowed_name |-> allowed_name, synonyms |-> synonyms]

\* the dictionary with the normalized name as the value too
RECURSIVE AllowedTagsNormalizedValues(_, _, _)
AllowedTagsNormalizedValues(rules, i, d) ==
    IF i > Len(rules) THEN d
    ELSE AllowedTagsNormalizedValues(rules, i + 1,
                     DictSet(d, normalize_tag(rules[i].allowed_name),
                             normalize_tag(rules[i].allowed_name)))

\* {normalize_tag(record.allowed_name): record.allowed_name for record in rules}
RECURSIVE AllowedTags(_, _, _)
AllowedTags(rules, i, d) ==
    IF i > Len(rules) THEN d
    ELSE AllowedTags(rules, i + 1,
                     DictSet(d, normalize_tag(rules[i].allowed_name), rules[i].allowed_name))

\* the inner loop over record.synonyms.split(', ')
RECURSIVE AddSynonyms(_, _, _, _)
AddSynonyms(synonyms, i, allowed_name, d) ==
    IF i > Len(synonyms) THEN d
    ELSE AddSynonyms(synonyms, i + 1, allowed_name,
                     DictSet(d, normalize_tag(synonyms[i]), allowed_name))

\* the loop over rules that fills allowed_tags_with_synonyms
RECURSIVE WithSynonyms(_, _, _)
WithSynonyms(rules, i, d) ==
    IF i > Len(rules) THEN d
    ELSE WithSynonyms(rules, i + 1,
                      IF rules[i].synonyms # <<>>
                      THEN AddSynonyms(Split(rules[i].synonyms, <<",", " ">>), 1,
                                       rules[i].allowed_name, d)
                      ELSE d)

BuildIndex(rules) == WithSynonyms(rules, 1, AllowedTags(rules, 1, <<>>))

\* list(collections.OrderedDict.fromkeys(result)): from position i on
RECURSIVE FromKeys(_, _, _)
FromKeys(result, i, acc) ==
    IF i > Len(result) THEN acc
    ELSE FromKeys(result, i + 1,
                  IF result[i] \in Range(acc) THEN acc ELSE Append(acc, result[i]))

\* list(result): no name dropped
KeepDuplicates(result) == result

OrderedDictFromKeys(result) == FromKeys(result, 1, <<>>)

\* the state of the loop over tags.split(";")
LoopStart(invalid_tags_cache) ==
    [result_tags |-> <<>>, cache |-> invalid_tags_cache,
     fuzzy |-> {}, rejected |-> {}, raised |-> FALSE]

\* the if/elif chain of the loop body, for the trimmed token `tag`
ResolveTag(tag, normalized_tag, split_tags, best_match, index, delayed_clean, clock, st) ==
    IF DictHas(index, normalized_tag)
    THEN [st EXCEPT !.result_tags = Append(@, DictGet(index, normalized_tag))]
    ELSE IF split_tags # <<>>
    THEN [st EXCEPT !.result_tags = @ \o split_tags]
    ELSE IF best_match.kind = "raise"
    THEN [st EXCEPT !.fuzzy = @ \cup {tag}, !.raised = TRUE]
    ELSE IF best_match.kind = "name" /\ best_match.name # <<>>
    THEN [st EXCEPT !.fuzzy = @ \cup {tag},
                    !.result_tags = Append(@, best_match.name)]
    ELSE IF delayed_clean
    THEN [st EXCEPT !.fuzzy = @ \cup {tag}, !.rejected = @ \cup {tag},
                    !.cache = CachePut(@, tag, clock)]
    ELSE [st EXCEPT !.fuzzy = @ \cup {tag}, !.rejected = @ \cup {tag}]

\* the loop body after tag = tag.strip(); split_composite_tag and
\* find_best_match are called only in the branches that use them
ProcessTag(which, tag, index, delayed_clean, clock, st) ==
    ResolveTag(tag, normalize_tag(tag), split_composite_tag(tag, index),
               find_best_match(which, tag, index), index, delayed_clean, clock, st)

\* the body of the loop for one piece of tags.split(";")
ProcessToken(which, piece, index, delayed_clean, clock, st) ==
    ProcessTag(which, Strip(piece), index, delayed_clean, clock, st)

RECURSIVE TokenLoop(_, _, _, _, _, _, _)
TokenLoop(which, pieces, i, index, delayed_clean, clock, st) ==
    IF i > Len(pieces) \/ st.raised THEN st
    ELSE TokenLoop(which, pieces, i + 1, index, delayed_clean, clock,
                   ProcessToken(which, pieces[i], index, delayed_clean, clock, st))

\* the reconciliation with `not in result_tags`
ReconcileNotInResult(invalid_tags_cache, result, delayed_clean) ==
    IF delayed_clean
    THEN CacheDel(invalid_tags_cache, {t \in DOMAIN invalid_tags_cache : t \notin Range(result)})
    ELSE invalid_tags_cache

\* the loop `if delayed_clean: for invalid_tag in list(invalid_tags_cache.keys())`
Reconcile(invalid_tags_cache, result, delayed_clean) ==
    IF delayed_clean
    THEN CacheDel(invalid_tags_cache, {t \in DOMAIN invalid_tags_cache : t \in Range(result)})
    ELSE invalid_tags_cache

\* what a call leaves behind: the cache it cleaned, the locals of its loop,
\* the cache it saves after the reconciliation, and what it returns
Returned(after_clean, st, final_tags_, delayed_clean) ==
    [cleaned |-> after_clean, result_tags |-> st.result_tags,
     fuzzy |-> st.fuzzy, rejected |-> st.rejected, raised |-> st.raised,
     saved |-> Reconcile(st.cache, st.result_tags, delayed_clean),
     final_tags |-> final_tags_, out |-> Join(<<";", " ">>, final_tags_)]

\* the call after the token loop, st the locals the loop leaves
Resolve(after_clean, st, delayed_clean) ==
    Returned(after_clean, st, OrderedDictFromKeys(st.result_tags), delayed_clean)

\* the call after clean_cache(invalid_tags_cache)
AfterClean(which, after_clean, clock, tags, rules, delayed_clean) ==
    Resolve(after_clean,
            TokenLoop(which, Split(tags, <<";">>), 1, BuildIndex(rules), delayed_clean,
                      clock, LoopStart(after_clean)),
            delayed_clean)

\* One call apply_tag_rules(tags, rules, delayed_clean) of implementation
\* `which`, with the cache file holding cache_file and the clock at `clock`:
\* everything the call computes, what it saves and what it returns.
Call(which, cache_file, clock, tags, rules, delayed_clean) ==
    AfterClean(which, clean_cache(cache_file, clock), clock, tags, rules, delayed_clean)

------------------------------------------------------------------------------
(* Bounds and the sets the inputs are drawn from *)

MaxInputLen == 3    \* longest input string of a single call (SpecOnce)
MaxRules == 2       \* longest rule table (SpecOnce)
MaxTokens == 2      \* most tokens of an input in a call sequence (Spec)
MaxTime == 16       \* the clock stops advancing here (Spec)
MaxStrLen == 3      \* longest token handed to the matching functions (SpecFuzzy)

\* all strings over alphabet of length at most n
RECURSIVE StringsUpTo(_, _)
StringsUpTo(alphabet, n) ==
    IF n = 0 THEN {<<>>}
    ELSE LET shorter == StringsUpTo(alphabet, n - 1)
         IN  shorter \cup {Append(s, c) : s \in shorter, c \in alphabet}

\* all sequences over S of length at most n
RECURSIVE SeqsUpTo(_, _)
SeqsUpTo(S, n) ==
    IF n = 0 THEN {<<>>}
    ELSE LET shorter == SeqsUpTo(S, n - 1)
         IN  shorter \cup {Append(s, x) : s \in shorter, x \in S}

Alphabet == {"a", "b", "B", " ", ";"}

Inputs == StringsUpTo(Alphabet, MaxInputLen)

\* a plain rule, a rule with an upper-case name, a rule with two synonyms of
\* which one is the first rule's name
RecordPool ==
    {Rec(<<"a">>, <<>>), Rec(<<"B">>, <<>>),
     Rec(<<"a", "b">>, <<"a", ",", " ", "a", "-", "b">>)}

RuleTables == SeqsUpTo(RecordPool, MaxRules)

\* call sequences: inputs of up to MaxTokens different tokens, each known to
\* one of two one-rule tables
CacheTokens == {<<"a">>, <<"b">>}

CacheInputs ==
    {Join(<<";">>, ts) : ts \in {s \in SeqsUpTo(CacheTokens, MaxTokens) :
                                   \A i, j \in 1..Len(s) : s[i] = s[j] => i = j}}

CacheRuleTables == {<<Rec(<<"a">>, <<>>)>>, <<Rec(<<"B">>, <<>>)>>}

\* the time that passes between two calls: half the expiration time, or a day more
Delays == {CACHE_EXPIRATION_DAYS \div 2, CACHE_EXPIRATION_DAYS \div 2 + 1}

\* the matching functions: short tokens against keys that tie (ab, ba) and
\* keys that score exactly 0.6 against aaa (aaabb: 3/5, aaabbbb: 6/10)
FuzzyStrings == StringsUpTo({"a", "b"}, MaxStrLen)

FuzzyRecords ==
    {Rec(<<"a", "b">>, <<>>), Rec(<<"b", "a">>, <<>>),
     Rec(<<"a", "a", "a", "b", "b">>, <<>>),
     Rec(<<"a", "a", "a", "b", "b", "b", "b">>, <<>>)}

FuzzyTables == SeqsUpTo(FuzzyRecords, MaxRules) \ {<<>>}

------------------------------------------------------------------------------
(* The state machine *)

QIdle ==
    [first_token |-> <<>>, second_token |-> <<>>, rules |-> <<>>, done |-> {},
     score |-> ZeroDivisionError, best1 |-> None, best2 |-> None]

Init ==
    /\ impl \in {1, 2}
    /\ now = 0
    /\ file = EmptyCache
    /\ called = FALSE
    /\ lastTags = <<>>
    /\ lastRules = <<>>
    /\ lastDelayed = FALSE
    /\ lastNow = 0
    /\ loaded = EmptyCache
    /\ cleaned = EmptyCache
    /\ result_tags = <<>>
    /\ final_tags = <<>>
    /\ out = <<>>
    /\ fuzzyRan = {}
    /\ rejected = {}
    /\ raised = FALSE
    /\ q = QIdle

\* apply_tag_rules(tags, rules, delayed_clean), from load_cache() to the
\* return.  The call is synchronous and its clock reads (clean_cache, and one
\* per token it caches) fall on the same day.  An exception leaves before
\* save_cache and returns nothing.
ApplyTagRules(tags, rules, delayed_clean) ==
    \E c \in {Call(impl, load_cache, now, tags, rules, delayed_clean)} :
        /\ called' = TRUE
        /\ lastTags' = tags
        /\ lastRules' = rules
        /\ lastDelayed' = delayed_clean
        /\ lastNow' = now
        /\ loaded' = load_cache
        /\ cleaned' = c.cleaned
        /\ result_tags' = c.result_tags
        /\ fuzzyRan' = c.fuzzy
        /\ rejected' = c.rejected
        /\ raised' = c.raised
        /\ file' = IF c.raised THEN file ELSE c.saved
        /\ final_tags' = IF c.raised THEN <<>> ELSE c.final_tags
        /\ out' = IF c.raised THEN <<>> ELSE c.out
        /\ UNCHANGED <<impl, now, q>>

\* time passes between two calls
Advance(d) ==
    /\ now + d <= MaxTime
    /\ now' = now + d
    /\ UNCHANGED <<impl, file, called, lastTags, lastRules, lastDelayed, lastNow, loaded,
                   cleaned, result_tags, final_tags, out, fuzzyRan, rejected, raised, q>>

\* a sequence of calls on one cache file, over the small vocabulary
CallSmall ==
    \E tags \in CacheInputs, rules \in CacheRuleTables, delayed_clean \in BOOLEAN :
        ApplyTagRules(tags, rules, delayed_clean)

Tick == \E d \in Delays : Advance(d)

Next == CallSmall \/ Tick

Spec == Init /\ [][Next]_vars

\* one call on a fresh cache, over every short input and rule table
CallOnce ==
    /\ ~called
    /\ \E tags \in Inputs, rules \in RuleTables, delayed_clean \in BOOLEAN :
          ApplyTagRules(tags, rules, delayed_clean)

SpecOnce == Init /\ [][CallOnce]_vars

\* the matching functions on their own
InitFuzzy ==
    /\ impl = 1
    /\ now = 0
    /\ file = EmptyCache
    /\ called = FALSE
    /\ lastTags = <<>>
    /\ lastRules = <<>>
    /\ lastDelayed = FALSE
    /\ lastNow = 0
    /\ loaded = EmptyCache
    /\ cleaned = EmptyCache
    /\ result_tags = <<>>
    /\ final_tags = <<>>
    /\ out = <<>>
    /\ fuzzyRan = {}
    /\ rejected = {}
    /\ raised = FALSE
    /\ \E a \in FuzzyStrings, b \in FuzzyStrings, rules \in FuzzyTables :
          q = [QIdle EXCEPT !.first_token = a, !.second_token = b, !.rules = rules]

UnchangedButQ ==
    UNCHANGED <<impl, now, file, called, lastTags, lastRules, lastDelayed, lastNow, loaded,
                cleaned, result_tags, final_tags, out, fuzzyRan, rejected, raised>>

\* is_tokens_fuzzy_equal(first_token, second_token)
Score ==
    /\ "score" \notin q.done
    /\ q' = [q EXCEPT !.done = @ \cup {"score"},
                      !.score = is_tokens_fuzzy_equal(q.first_token, q.second_token)]
    /\ UnchangedButQ

\* find_best_match(first_token, index of rules), first implementation
BestMatch1 ==
    /\ "best1" \notin q.done
    /\ q' = [q EXCEPT !.done = @ \cup {"best1"},
                      !.best1 = find_best_match(1, q.first_token, BuildIndex(q.rules))]
    /\ UnchangedButQ

\* find_best_match(first_token, index of rules), second implementation
BestMatch2 ==
    /\ "best2" \notin q.done
    /\ q' = [q EXCEPT !.done = @ \cup {"best2"},
                      !.best2 = find_best_match(2, q.first_token, BuildIndex(q.rules))]
    /\ UnchangedButQ

NextFuzzy == Score \/ BestMatch1 \/ BestMatch2

SpecFuzzy == InitFuzzy /\ [][NextFuzzy]_vars

------------------------------------------------------------------------------
(* What the claims speak of *)

\* the raw tokens of an input: its pieces between semicolons, trimmed
Tokens(tags) == [i \in 1..Len(Split(tags, <<";">>)) |-> Strip(Split(tags, <<";">>)[i])]

\* an input that is one trimmed token
RawToken(t) ==
    /\ ";" \notin Range(t)
    /\ t # <<>> => ~IsSpace(t[1]) /\ ~IsSpace(t[Len(t)])

\* two characters that differ at most in letter case or in which of space,
\* hyphen and underscore they are
SameChar(c, d) ==
    \/ c = d
    \/ {c, d} \subseteq {" ", "-", "_"}
    \/ {c, d} = {"a", "A"}
    \/ {c, d} = {"b", "B"}

SameNormalForm(s, t) == Len(s) = Len(t) /\ \A i \in 1..Len(s) : SameChar(s[i], t[i])

\* the other raw tokens with the normal form of s
Variants(s) == {t \in Inputs : t # s /\ RawToken(t) /\ SameNormalForm(s, t)}

NoDuplicates(seq) == \A i, j \in 1..Len(seq) : seq[i] = seq[j] => i = j

\* seq without the later occurrences of each of its elements
FirstOccurrences(seq) ==
    LET First == {i \in 1..Len(seq) : \A j \in 1..(i - 1) : seq[j] # seq[i]}
        Nth(n) == CHOOSE i \in First : Cardinality({j \in First : j <= i}) = n
    IN  [n \in 1..Cardinality(First) |-> seq[Nth(n)]]

\* what the last call's rule table makes of one raw token
LastIndex == BuildIndex(lastRules)

ExactHit(t) == DictHas(LastIndex, normalize_tag(t))

SplitsTo(t) == split_composite_tag(t, LastIndex)

Unresolved(t) ==
    /\ ~ExactHit(t)
    /\ SplitsTo(t) = <<>>
    /\ find_best_match(impl, t, LastIndex).kind # "name"

\* what the last call would have returned for the input t
OutputFor(t) == Call(impl, loaded, lastNow, t, lastRules, lastDelayed).out

------------------------------------------------------------------------------
(* C1, as claimed: two raw tokens with the same normal form give the same   *)
(* output, whichever step resolves them.                                    *)
C1_AnyStep ==
    (called /\ RawToken(lastTags)) =>
        \A t \in Variants(lastTags) : OutputFor(t) = out

(* C1, amended: two raw tokens with the same normal form give the same      *)
(* output when the exact step resolves them or the composite split of       *)
(* neither yields a name (so both go to the fuzzy step).                    *)
C1_ExactOrFuzzy ==
    (called /\ RawToken(lastTags)) =>
        \A t \in Variants(lastTags) :
            (ExactHit(lastTags) \/ (SplitsTo(lastTags) = <<>> /\ SplitsTo(t) = <<>>))
            => OutputFor(t) = out

\* a token the fuzzy step resolved, with another token of the same normal form
C1_Witness ==
    /\ called
    /\ RawToken(lastTags)
    /\ ~ExactHit(lastTags)
    /\ SplitsTo(lastTags) = <<>>
    /\ out # <<>>
    /\ \E t \in Variants(lastTags) : SplitsTo(t) = <<>>

------------------------------------------------------------------------------
AllowedNames(rules) == {rules[i].allowed_name : i \in 1..Len(rules)}

UniqueAfterNormalization(rules) ==
    \A i, j \in 1..Len(rules) :
        SameNormalForm(rules[i].allowed_name, rules[j].allowed_name) => i = j

SynonymsOf(record) ==
    IF record.synonyms = <<>> THEN {} ELSE Range(Split(record.synonyms, <<",", " ">>))

NoSynonymIsAnotherName(rules) ==
    \A i, j \in 1..Len(rules) :
        i # j => \A s \in SynonymsOf(rules[j]) : ~SameNormalForm(s, rules[i].allowed_name)

CanonicalInput ==
    /\ called
    /\ UniqueAfterNormalization(lastRules)
    /\ \A k \in 1..Len(Tokens(lastTags)) : Tokens(lastTags)[k] \in AllowedNames(lastRules)

ComesBackUnchanged ==
    /\ final_tags = FirstOccurrences(Tokens(lastTags))
    /\ out = Join(<<";", " ">>, FirstOccurrences(Tokens(lastTags)))

(* C2, as claimed: with unique allowed names and arbitrary synonyms, an     *)
(* input of allowed names comes back unchanged, deduplicated.               *)
C2_AnySynonyms == CanonicalInput => ComesBackUnchanged

(* C2, amended: with unique allowed names of which none is, after           *)
(* normalization, a synonym of another rule, an input of allowed names      *)
(* comes back unchanged, in order, later duplicates removed.                *)
C2_NoShadowingSynonym ==
    (CanonicalInput /\ NoSynonymIsAnotherName(lastRules)) => ComesBackUnchanged

\* two allowed names in, under a table with synonyms
C2_Witness ==
    /\ CanonicalInput
    /\ NoSynonymIsAnotherName(lastRules)
    /\ Len(Tokens(lastTags)) = 2
    /\ \E i \in 1..Len(lastRules) : lastRules[i].synonyms # <<>>

------------------------------------------------------------------------------
(* C3: the returned names hold no name twice and stand in the order of      *)
(* their first occurrence among the names resolved token by token.          *)
C3_DeduplicationLaw ==
    called =>
        /\ NoDuplicates(final_tags)
        /\ final_tags = FirstOccurrences(result_tags)
        /\ out = Join(<<";", " ">>, final_tags)

\* a composite split that resolved a name twice, two names returned
C3_Witness ==
    /\ called
    /\ Len(Tokens(lastTags)) = 1
    /\ SplitsTo(lastTags) = result_tags
    /\ Len(result_tags) > Len(final_tags)
    /\ Len(final_tags) = 2

------------------------------------------------------------------------------
(* C4, as claimed: the empty input returns the empty string and adds no     *)
(* entry to the cache, which is saved as loaded less the expired entries.   *)
C4_EmptyInputAddsNothing ==
    (called /\ lastTags = <<>> /\ lastDelayed) =>
        /\ out = <<>>
        /\ rejected = {}
        /\ file = cleaned

------------------------------------------------------------------------------
(* C5, as claimed: of two calls with delayed_clean on the same rule table,  *)
(* the later does not run the fuzzy step on a token the earlier recorded    *)
(* and whose entry has not expired.                                         *)
C5_CachedTokenSkipsFuzzy ==
    [][(/\ called /\ called' /\ now' = now
        /\ lastDelayed /\ lastDelayed'
        /\ lastRules' = lastRules)
       => \A t \in rejected :
             (t \in Range(Tokens(lastTags')) /\ t \in DOMAIN cleaned') => t \notin fuzzyRan']_vars

------------------------------------------------------------------------------
(* C7: a token no step resolves is not in the output (an input of such     *)
(* tokens returns the empty string); with delayed_clean it is a key of the  *)
(* saved cache, without delayed_clean the call adds no key.                 *)
C7_UnresolvedRemembered ==
    (called /\ ~raised) =>
        /\ (\A k \in 1..Len(Tokens(lastTags)) : Unresolved(Tokens(lastTags)[k])) => out = <<>>
        /\ \A k \in 1..Len(Tokens(lastTags)) :
              Unresolved(Tokens(lastTags)[k]) =>
                  /\ Tokens(lastTags)[k] \notin Range(final_tags)
                  /\ lastDelayed => Tokens(lastTags)[k] \in DOMAIN file
        /\ ~lastDelayed => DOMAIN file \subseteq DOMAIN cleaned

\* a token recorded in a call whose reconciliation removed another key
C7_Witness ==
    /\ called
    /\ lastDelayed
    /\ \E k \in 1..Len(Tokens(lastTags)) :
          Unresolved(Tokens(lastTags)[k]) /\ Tokens(lastTags)[k] \in DOMAIN file
    /\ DOMAIN cleaned \ DOMAIN file # {}

------------------------------------------------------------------------------
(* C8: after a call the saved cache holds no entry more than 14 days older  *)
(* than the call's clock, and cleaning removed no entry aged 14 days or     *)
(* less.                                                                    *)
C8_TTLLaw ==
    (called /\ ~raised) =>
        /\ \A t \in DOMAIN file : lastNow - file[t] <= CACHE_EXPIRATION_DAYS
        /\ \A t \in DOMAIN loaded :
              lastNow - loaded[t] <= CACHE_EXPIRATION_DAYS =>
                  t \in DOMAIN cleaned /\ cleaned[t] = loaded[t]

\* an entry aged exactly 14 days kept, of a token not in the input
C8_Witness ==
    /\ called
    /\ \E t \in DOMAIN loaded :
          /\ lastNow - loaded[t] = CACHE_EXPIRATION_DAYS
          /\ t \notin Range(Tokens(lastTags))
          /\ t \in DOMAIN file

------------------------------------------------------------------------------
(* C9, as claimed: a token rejected again while its entry has not expired   *)
(* keeps the timestamp of its first rejection.                              *)
C9_TimestampOfFirstRejection ==
    (called /\ lastDelayed /\ ~raised) =>
        \A t \in rejected \cap DOMAIN cleaned : file[t] = cleaned[t]

------------------------------------------------------------------------------
\* the score implementation `which` gives a key against the normalized token
ScoreOf(which, normalized_tag, key) ==
    IF which = 1 THEN is_tokens_fuzzy_equal(normalized_tag, key) ELSE ratio(key, normalized_tag)

\* the name of the first of the highest-scoring keys that score above 0.6
Selected(which, tag, index) ==
    LET keys == DictKeys(index)
        Sc(i) == ScoreOf(which, normalize_tag(tag), keys[i])
        Above == {i \in 1..Len(keys) : Greater(Sc(i), [num |-> 3, den |-> 5])}
        Best == {i \in Above : \A j \in Above : ~Greater(Sc(j), Sc(i))}
    IN  IF Above = {} THEN None
        ELSE Name(index[CHOOSE i \in Best : \A j \in Best : i <= j].v)

(* C6, as claimed: in both implementations find_best_match returns the name *)
(* of the first of the highest-scoring keys scoring strictly above 0.6,     *)
(* and no match when there is none.                                         *)
C6_CandidateSelection ==
    /\ "best1" \in q.done => q.best1 = Selected(1, q.first_token, BuildIndex(q.rules))
    /\ "best2" \in q.done => q.best2 = Selected(2, q.first_token, BuildIndex(q.rules))

------------------------------------------------------------------------------
(* C10, as claimed: is_tokens_fuzzy_equal returns, for any two strings, a   *)
(* value in [0,1] equal to matches / (len(a) + len(b) - matches), without   *)
(* faulting, and 0 for two empty strings.                                   *)
C10_ScorerTotal ==
    "score" \in q.done =>
        LET matches == SumMin(q.first_token, q.second_token, Range(q.first_token))
        IN  /\ q.score.ok
            /\ 0 <= q.score.num /\ q.score.num <= q.score.den
            /\ q.first_token = <<>> /\ q.second_token = <<>> => q.score.num = 0
            /\ q.first_token # <<>> \/ q.second_token # <<>> =>
                  q.score = [ok |-> TRUE, num |-> matches,
                             den |-> Len(q.first_token) + Len(q.second_token) - matches]

====
